---- MODULE Spec2Model ----
(***************************************************************************)
(* A model of the file-archive tagger: the SQLite catalog (files,          *)
(* taxonomies, tags, file_tags), the taxonomy manager, and the CLI         *)
(* handlers add / check / verify / tag / taxonomy init, working on a small *)
(* filesystem; also search, the lookup by hash and normalize. The          *)
(* database file .fart is part of the filesystem the handlers read.        *)
(*                                                                         *)
(* Paths are sequences of components ("players/a.txt" is                   *)
(* <<"players", "a.txt">>, "./a.txt" is <<".", "a.txt">>); a leading "/"   *)
(* component stands for the absolute prefix of the working directory.      *)
(* Taxonomy names are sequences of characters, so that trimming and        *)
(* lower-casing are computed and not assumed.                              *)
(***************************************************************************)
EXTENDS Integers, Sequences, FiniteSets, Bags, TLC

VARIABLES
    initialized,  \* the schema exists (the tables were created by Initialize)
    files,        \* table files: set of rows [id, filename, path, hash, size, modified_at]
    taxonomies,   \* table taxonomies: set of rows [id, name]
    tags,         \* table tags: set of rows [id, taxonomy_id, name]
    file_tags,    \* table file_tags: bag of rows <<file_id, tag_id>>
    fs,           \* the filesystem: file slot -> NoFile or [content, mtime, readable]
    dbfile,       \* the database file .fart: [mtime, writes], mtime "-" while absent
    out,          \* lines printed by the last command
    err,          \* error returned by the last command ("ok" when nil)
    last,         \* the last call: [op, args, again]
    registered    \* history: (path, filename) -> values of its last successful AddFile

vars == <<initialized, files, taxonomies, tags, file_tags, fs, dbfile, out, err,
          last, registered>>

catalog == <<files, taxonomies, tags, file_tags>>

----------------------------------------------------------------------------
(* Bounds of the model *)

MaxContent == 2      \* distinct file contents: 1..MaxContent

----------------------------------------------------------------------------
(* Strings: strings.ToLower and strings.TrimSpace on character sequences *)

Lower(c) ==
    CASE c = "A" -> "a"
      [] c = "T" -> "t"
      [] OTHER -> c

ToLower(s) == [i \in 1..Len(s) |-> Lower(s[i])]

IsSpace(c) == c = " "

RECURSIVE TrimLeft(_)
TrimLeft(s) ==
    IF s # <<>> /\ IsSpace(Head(s)) THEN TrimLeft(Tail(s)) ELSE s

RECURSIVE TrimRight(_)
TrimRight(s) ==
    IF s # <<>> /\ IsSpace(s[Len(s)]) THEN TrimRight(SubSeq(s, 1, Len(s) - 1)) ELSE s

TrimSpace(s) == TrimRight(TrimLeft(s))

\* a mutant of NormalizeName: the name is used as given
NormalizeNameVerbatim(name) == name

\* strings.ToLower(strings.TrimSpace(name))
NormalizeName(name) == ToLower(TrimSpace(name))

\* the default taxonomy, 'tags'
Tags == <<"t", "a", "g", "s">>

----------------------------------------------------------------------------
(* Paths: path/filepath on component sequences *)

IsAbs(p) == p # <<>> /\ p[1] = "/"

RECURSIVE DropDots(_)
DropDots(p) ==
    IF p = <<>> THEN <<>>
    ELSE IF Head(p) = "." THEN DropDots(Tail(p))
    ELSE <<Head(p)>> \o DropDots(Tail(p))

\* filepath.Clean: "." components are dropped, the empty path is "."
Clean(p) == IF DropDots(p) = <<>> THEN <<".">> ELSE DropDots(p)

\* filepath.Join cleans its result
Join(dir, name) == Clean(dir \o <<name>>)

\* the name of the working directory: filepath.Base of its absolute path
CwdName == "cwd"

\* filepath.Base: the last element
Base(p) ==
    IF p = <<>> THEN "."
    ELSE IF p = <<"/">> THEN CwdName
    ELSE p[Len(p)]

\* filepath.Dir: all but the last element, cleaned
Dir(p) ==
    IF Len(p) <= 1 THEN (IF IsAbs(p) THEN <<"/">> ELSE <<".">>)
    ELSE Clean(SubSeq(p, 1, Len(p) - 1))

\* filepath.Abs: joins a relative path to the working directory
Abs(p) == IF IsAbs(p) THEN Clean(p) ELSE Clean(<<"/">> \o p)

\* filepath.Rel(".", target): [ok, path]; an absolute target cannot be made
\* relative to the relative base "."
RelToCwd(target) ==
    IF IsAbs(target) THEN [ok |-> FALSE, path |-> <<>>]
    ELSE [ok |-> TRUE, path |-> Clean(target)]

\* SQL: path || '/' || filename (no cleaning)
SqlConcatPath(path, filename) == path \o <<filename>>

----------------------------------------------------------------------------
(* Inputs *)

RootDir == <<".">>
PlayersDir == <<"players">>
Dirs == {RootDir, PlayersDir}
Filenames == {"a.txt", "b.txt"}

\* file contents: content c stands for a file of c bytes
Contents == 1..MaxContent

\* CalculateFileHash: the SHA-256 digest, one digest per content
HashOf(c) == <<"sha256", c>>

\* stat.Size()
SizeOf(c) == c

\* (hash, size, modified_at) observations a caller registers
FileVersions ==
    { [hash |-> HashOf(1), size |-> SizeOf(1), modified_at |-> "t1"],
      [hash |-> HashOf(1), size |-> SizeOf(1), modified_at |-> "t2"],
      [hash |-> HashOf(2), size |-> SizeOf(2), modified_at |-> "t2"] }

\* taxonomy names a caller types at taxonomy init
TaxonomyNames ==
    { <<>>, <<" ">>, <<"a">>, <<"A">>, <<" ", "A">>, <<"b", " ">>, <<"T", "a", "g", "s">> }

\* the taxonomy flag of the tag command: <<>> for none, <<name>> for --name
TagFlags == { <<>>, << <<>> >>, << <<"A">> >>, << <<" ", "a">> >> }

TagValues == {"", "x"}

\* file arguments of the tag command
TagPaths == { <<"a.txt">>, <<"players", "a.txt">> }

\* storage failures the engine can report inside TagFile
TagFaults == {"none", "begin", "taxonomy", "tag", "link", "commit"}

----------------------------------------------------------------------------
(* The catalog store *)

MaxOf(S) == CHOOSE m \in S : \A x \in S : x <= m

\* INTEGER PRIMARY KEY: the next rowid is the largest one plus one
NextId(rows) == IF rows = {} THEN 1 ELSE MaxOf({r.id : r \in rows}) + 1

\* a mutant of InsertDefaultTaxonomy: the conflict on name is not ignored
InsertDefaultTaxonomyAgain(rows) ==
    rows \cup {[id |-> NextId(rows), name |-> Tags]}

\* INSERT OR IGNORE INTO taxonomies (name) VALUES ('tags')
InsertDefaultTaxonomy(rows) ==
    IF \E t \in rows : t.name = Tags THEN rows
    ELSE rows \cup {[id |-> NextId(rows), name |-> Tags]}

\* a mutant of UpsertFile: the conflicting row is replaced by a new row
UpsertFileReplaces(rows, filename, path, hash, size, modifiedAt) ==
    {r \in rows : ~(r.path = path /\ r.filename = filename)}
      \cup {[id |-> NextId(rows), filename |-> filename, path |-> path,
              hash |-> hash, size |-> size, modified_at |-> modifiedAt]}

\* a mutant of UpsertFile: the conflict on (path, filename) is ignored
UpsertFileAlwaysInserts(rows, filename, path, hash, size, modifiedAt) ==
    rows \cup {[id |-> NextId(rows), filename |-> filename, path |-> path,
                hash |-> hash, size |-> size, modified_at |-> modifiedAt]}

\* INSERT INTO files ... ON CONFLICT(path, filename) DO UPDATE SET hash, size, modified_at
UpsertFile(rows, filename, path, hash, size, modifiedAt) ==
    IF \E r \in rows : r.path = path /\ r.filename = filename
    THEN { IF r.path = path /\ r.filename = filename
           THEN [r EXCEPT !.hash = hash, !.size = size, !.modified_at = modifiedAt]
           ELSE r : r \in rows }
    ELSE rows \cup {[id |-> NextId(rows), filename |-> filename, path |-> path,
                     hash |-> hash, size |-> size, modified_at |-> modifiedAt]}

\* DB.AddFile on the files table: [err, rows]
DBAddFile(rows, filename, path, hash, size, modifiedAt) ==
    IF ~initialized THEN [err |-> "failed to add file", rows |-> rows]
    ELSE [err |-> "ok", rows |-> UpsertFile(rows, filename, path, hash, size, modifiedAt)]

\* DB.AddTaxonomy: a plain INSERT, the UNIQUE(name) constraint rejects a duplicate
DBAddTaxonomy(rows, name) ==
    IF ~initialized \/ (\E t \in rows : t.name = name)
    THEN [err |-> "failed to add taxonomy", rows |-> rows]
    ELSE [err |-> "ok", rows |-> rows \cup {[id |-> NextId(rows), name |-> name]}]

\* a mutant of UpsertTaxonomy: the conflict on name is ignored
UpsertTaxonomyAlwaysInserts(rows, name) ==
    [rows |-> rows \cup {[id |-> NextId(rows), name |-> name]}, id |-> NextId(rows)]

\* INSERT INTO taxonomies ... ON CONFLICT(name) DO UPDATE ... RETURNING id
UpsertTaxonomy(rows, name) ==
    IF \E t \in rows : t.name = name
    THEN [rows |-> rows, id |-> (CHOOSE t \in rows : t.name = name).id]
    ELSE [rows |-> rows \cup {[id |-> NextId(rows), name |-> name]}, id |-> NextId(rows)]

\* INSERT INTO tags ... ON CONFLICT(taxonomy_id, name) DO UPDATE ... RETURNING id
UpsertTag(rows, taxonomyID, name) ==
    IF \E t \in rows : t.taxonomy_id = taxonomyID /\ t.name = name
    THEN [rows |-> rows,
          id |-> (CHOOSE t \in rows : t.taxonomy_id = taxonomyID /\ t.name = name).id]
    ELSE [rows |-> rows \cup {[id |-> NextId(rows), taxonomy_id |-> taxonomyID,
                               name |-> name]},
          id |-> NextId(rows)]

\* a mutant of LinkFileTag: the conflict on (file_id, tag_id) is ignored
LinkFileTagAlwaysInserts(rows, fileID, tagID) ==
    rows (+) SetToBag({<<fileID, tagID>>})

\* INSERT INTO file_tags ... ON CONFLICT(file_id, tag_id) DO NOTHING
LinkFileTag(rows, fileID, tagID) ==
    IF BagIn(<<fileID, tagID>>, rows) THEN rows
    ELSE rows (+) SetToBag({<<fileID, tagID>>})

\* a mutant of Rollback: only the taxonomies table is restored
RollbackTaxonomiesOnly(pre, tx) == [tx EXCEPT !.taxonomies = pre.taxonomies]

\* a mutant of Rollback: the writes of the failed transaction stay
RollbackKeepsWrites(pre, tx) == tx

\* defer tx.Rollback(): a transaction that did not commit leaves the tables as
\* they were at Begin
Rollback(pre, tx) == pre

\* DB.TagFile: [err, db], db the three tables it writes
DBTagFile(filePath, taxonomyName, tagName, fault) ==
    LET pre == [taxonomies |-> taxonomies, tags |-> tags, file_tags |-> file_tags]
        filename == Base(filePath)
        found == {f \in files : f.path = PlayersDir /\ f.filename = filename}
    IN  IF fault = "begin" THEN [err |-> "begin", db |-> pre]
        ELSE IF ~initialized \/ found = {}
        THEN [err |-> "file not found", db |-> Rollback(pre, pre)]
        ELSE IF fault = "taxonomy"
        THEN [err |-> "failed to get/create taxonomy", db |-> Rollback(pre, pre)]
        ELSE
          LET fileID == (CHOOSE f \in found : TRUE).id
              s1 == UpsertTaxonomy(pre.taxonomies, taxonomyName)
              tx1 == [pre EXCEPT !.taxonomies = s1.rows]
          IN  IF fault = "tag"
              THEN [err |-> "failed to create/get tag", db |-> Rollback(pre, tx1)]
              ELSE
                LET s2 == UpsertTag(tx1.tags, s1.id, tagName)
                    tx2 == [tx1 EXCEPT !.tags = s2.rows]
                IN  IF fault = "link"
                    THEN [err |-> "failed to tag file", db |-> Rollback(pre, tx2)]
                    ELSE
                      LET tx3 == [tx2 EXCEPT
                                    !.file_tags = LinkFileTag(tx2.file_tags, fileID, s2.id)]
                      IN  IF fault = "commit"
                          THEN [err |-> "commit", db |-> Rollback(pre, tx3)]
                          ELSE [err |-> "ok", db |-> tx3]

----------------------------------------------------------------------------
(* The taxonomy manager *)

\* Manager.InitTaxonomy: [err, rows]
ManagerInitTaxonomy(name) ==
    IF name = <<>>
    THEN [err |-> "taxonomy name cannot be empty", rows |-> taxonomies]
    ELSE DBAddTaxonomy(taxonomies, NormalizeName(name))

\* Manager.TagFile: [err, db]
ManagerTagFile(filePath, taxonomyName, tagValue, fault) ==
    IF filePath = <<>> \/ taxonomyName = <<>> \/ tagValue = ""
    THEN [err |-> "file path, taxonomy name, and tag value are required",
          db |-> [taxonomies |-> taxonomies, tags |-> tags, file_tags |-> file_tags]]
    ELSE DBTagFile(filePath, NormalizeName(taxonomyName), tagValue, fault)

----------------------------------------------------------------------------
(* Filesystem *)

NoFile == [content |-> 0, mtime |-> "-", readable |-> FALSE]

\* a file without read permission; what it holds cannot be observed
Unreadable == [content |-> 0, mtime |-> "t1", readable |-> FALSE]

\* the regular files the filesystem can hold, besides the database file
FileSlots == {<<"a.txt">>, <<"players", "a.txt">>}

\* a file whose name filename normalization changes
RenameSlots == {<<"A.txt">>}

\* every regular file of the filesystem
Slots == FileSlots \cup RenameSlots

\* the directories: the working directory and players/; they always exist
DirSlots == {<<>>, <<"players">>}

\* the database file .fart of the working directory
DbFile == <<".fart">>

\* directory entries in the lexical order filepath.Walk and filepath.Glob use
NameOrder == <<".fart", "A.txt", "a.txt", "players">>

\* the place a path names: relative to the working directory, "." dropped
SlotOf(p) == DropDots(IF IsAbs(p) THEN Tail(p) ELSE p)

IsDirPath(p) == SlotOf(p) \in DirSlots

\* The readers of the filesystem take the state d = [mtime, writes] of the
\* database file they see: a command that sends statements changes the file
\* between two of its own reads.

\* the database file exists once a statement was sent to the database: the
\* connection is opened lazily and creates the file
IsFilePathAt(d, p) ==
    \/ SlotOf(p) \in Slots /\ fs[SlotOf(p)] # NoFile
    \/ SlotOf(p) = DbFile /\ d.mtime # "-"

IsFilePath(p) == IsFilePathAt(dbfile, p)

\* os.Stat(p) succeeds
ExistsAt(d, p) == IsDirPath(p) \/ IsFilePathAt(d, p)

Exists(p) == ExistsAt(dbfile, p)

\* the sorted names of a directory's entries
ListDirAt(d, dir) == SelectSeq(NameOrder, LAMBDA n : ExistsAt(d, dir \o <<n>>))

ListDir(dir) == ListDirAt(dbfile, dir)

\* strings.HasPrefix(filepath.Base(p), ".")
IsHidden(p) == Base(p) \in {".", ".fart"}

\* the clock readings a modification time can hold
Times == {"t1", "t2"}

\* the statements that change .fart which a behaviour holds at most
MaxDbWrites == 6

\* .fart before the first statement: absent
NoDbFile == [mtime |-> "-", writes |-> 0]

\* .fart after a statement was sent at the clock reading now: the first
\* statement creates the file, empty
DbTouched(d, now) == IF d.mtime = "-" THEN [d EXCEPT !.mtime = now] ELSE d

\* .fart after a statement changed the database at the clock reading now
DbWritten(d, now) == [mtime |-> now, writes |-> d.writes + 1]

\* .fart after a statement that succeeded: a statement that leaves every row
\* as it was, as the upsert of a file with the stored values or an ignored
\* insert does, leaves the bytes of the file. (The upserts of TagFile set the
\* indexed column name and rewrite the file on every commit.)
DbStated(d, changed, now) == IF changed THEN DbWritten(d, now) ELSE DbTouched(d, now)

\* the states .fart can have after a command that sent statements (touched)
\* of which n changed the database, at any reading of the clock
DbAfter(touched, n) ==
    IF n > 0
    THEN { [mtime |-> t, writes |-> dbfile.writes + n] :
             t \in {u \in Times : dbfile.writes + n <= MaxDbWrites} }
    ELSE IF touched /\ dbfile.mtime = "-"
    THEN { [dbfile EXCEPT !.mtime = t] : t \in Times }
    ELSE {dbfile}

\* stat.Size() of .fart: empty until Initialize, then the eleven 4096-byte
\* pages of the schema (the schema page, five tables, five unique indexes)
DbFileSize == IF initialized THEN 11 * 4096 ELSE 0

\* the digest of the bytes of .fart in the state d: of the empty file until
\* Initialize, then another one after every statement that changed the file
DbFileHashAt(d) == IF d.writes = 0 THEN HashOf(0) ELSE <<"sha256 of .fart", d.writes>>

DbFileHash == DbFileHashAt(dbfile)

\* fileops.GetFileInfo: [ok, hash, size, mtime]
GetFileInfoAt(d, p) ==
    LET absPath == Abs(p)
        slot == SlotOf(absPath)
        failed == [ok |-> FALSE, hash |-> <<>>, size |-> 0, mtime |-> "-"]
    IN  IF ~ExistsAt(d, absPath) THEN failed           \* os.Stat fails
        ELSE IF IsDirPath(absPath) THEN failed         \* reading a directory fails
        ELSE IF slot = DbFile
        THEN [ok |-> TRUE, hash |-> DbFileHashAt(d), size |-> DbFileSize,
              mtime |-> d.mtime]
        ELSE IF ~fs[slot].readable THEN failed         \* os.Open fails
        ELSE [ok |-> TRUE, hash |-> HashOf(fs[slot].content),
              size |-> SizeOf(fs[slot].content), mtime |-> fs[slot].mtime]

GetFileInfo(p) == GetFileInfoAt(dbfile, p)

\* filepath.Walk on an existing root: the visited paths in order, the root
\* as given and every entry below it as filepath.Join(dir, name)
RECURSIVE WalkEntriesAt(_, _)
RECURSIVE WalkNamesAt(_, _, _)
WalkEntriesAt(d, p) ==
    IF IsDirPath(p) THEN <<p>> \o WalkNamesAt(d, p, ListDirAt(d, SlotOf(p))) ELSE <<p>>

WalkNamesAt(d, dir, names) ==
    IF names = <<>> THEN <<>>
    ELSE WalkEntriesAt(d, Join(dir, Head(names))) \o WalkNamesAt(d, dir, Tail(names))

WalkEntries(p) == WalkEntriesAt(dbfile, p)

\* strings.ContainsAny(pattern, "*?[]")
HasMeta(p) == \E i \in 1..Len(p) : p[i] = "*"

RECURSIVE JoinAll(_, _)
JoinAll(dir, names) ==
    IF names = <<>> THEN <<>>
    ELSE <<Join(dir, Head(names))>> \o JoinAll(dir, Tail(names))

\* filepath.Glob: a pattern dir/* matches every entry of dir; a pattern
\* without wildcard matches itself when it exists
GlobAt(d, pattern) ==
    IF HasMeta(pattern)
    THEN LET dir == SubSeq(pattern, 1, Len(pattern) - 1)
         IN  IF IsDirPath(dir) THEN JoinAll(dir, ListDirAt(d, SlotOf(dir))) ELSE <<>>
    ELSE IF ExistsAt(d, pattern) THEN <<pattern>> ELSE <<>>

Glob(pattern) == GlobAt(dbfile, pattern)

\* a printed line
Line(k, p, q) == [k |-> k, p |-> p, q |-> q]

----------------------------------------------------------------------------
(* Catalog queries of the reconciler *)

\* the rows of a table in rowid order, the order of a table scan
RECURSIVE RowsById(_)
RowsById(rows) ==
    IF rows = {} THEN <<>>
    ELSE LET r == CHOOSE r \in rows : \A x \in rows : r.id <= x.id
         IN  <<r>> \o RowsById(rows \ {r})

\* DB.FileExists(hash): [err, exists]
DBFileExists(hash) ==
    IF ~initialized THEN [err |-> "failed to check file existence", exists |-> FALSE]
    ELSE [err |-> "ok", exists |-> \E r \in files : r.hash = hash]

\* a mutant of DBGetFilePathByHash: the WHERE clause is dropped
DBGetFilePathByHashAnyRow(hash) ==
    IF ~initialized THEN [err |-> "failed to query file path", path |-> <<>>]
    ELSE LET rows == RowsById(files)
         IN  IF rows = <<>> THEN [err |-> "ok", path |-> <<>>]
             ELSE [err |-> "ok", path |-> Join(rows[1].path, rows[1].filename)]

\* DB.GetFilePathByHash: [err, path]; the first row of the scan, its path
\* joined to its filename; path <<>> is the empty string of "no row"
DBGetFilePathByHash(hash) ==
    IF ~initialized THEN [err |-> "failed to query file path", path |-> <<>>]
    ELSE LET rows == RowsById({r \in files : r.hash = hash})
         IN  IF rows = <<>> THEN [err |-> "ok", path |-> <<>>]
             ELSE [err |-> "ok", path |-> Join(rows[1].path, rows[1].filename)]

\* the names of the model in the byte order of their strings
ByteOrder == <<".", ".fart", "A.txt", "a.txt", "b.txt", "players">>

\* the place of a name in the byte order
Rank(n) == CHOOSE i \in DOMAIN ByteOrder : ByteOrder[i] = n

\* p sorts before q: component by component, a proper prefix first
RECURSIVE PathLess(_, _)
PathLess(p, q) ==
    IF q = <<>> THEN FALSE
    ELSE IF p = <<>> THEN TRUE
    ELSE IF Head(p) # Head(q) THEN Rank(Head(p)) < Rank(Head(q))
    ELSE PathLess(Tail(p), Tail(q))

\* r sorts before s in the index of UNIQUE(path, filename)
KeyLess(r, s) ==
    \/ PathLess(r.path, s.path)
    \/ r.path = s.path /\ Rank(r.filename) < Rank(s.filename)

\* the rows in the order of the index of UNIQUE(path, filename), the order of
\* a scan that reads only path and filename
RECURSIVE RowsByKey(_)
RowsByKey(rows) ==
    IF rows = {} THEN <<>>
    ELSE LET r == CHOOSE r \in rows : \A x \in rows : x = r \/ KeyLess(r, x)
         IN  <<r>> \o RowsByKey(rows \ {r})

\* DB.GetAllFiles on the given rows: [err, paths]; the query reads path and
\* filename only and is answered from the index of UNIQUE(path, filename)
DBGetAllFiles(rows) ==
    IF ~initialized THEN [err |-> "failed to query files", paths |-> <<>>]
    ELSE [err |-> "ok",
          paths |-> [i \in 1..Cardinality(rows) |->
                       SqlConcatPath(RowsByKey(rows)[i].path, RowsByKey(rows)[i].filename)]]

----------------------------------------------------------------------------
(* Search *)

\* the rows of the join files - file_tags - tags - taxonomies that the WHERE
\* clause keeps; one row per stored association
SearchHits(taxonomyName, tagName) ==
    UNION { UNION { UNION { { [f |-> f, t |-> t, tax |-> x, k |-> k] :
                                k \in 1..CopiesIn(<<f.id, t.id>>, file_tags) } :
                            f \in files } :
                    t \in {y \in tags : y.taxonomy_id = x.id /\ y.name = tagName} } :
            x \in {y \in taxonomies : y.name = taxonomyName} }

\* a mutant of DBSearchByTag: the taxonomy is not part of the filter
DBSearchByTagAnyTaxonomy(taxonomyName, tagName) ==
    IF ~initialized THEN [err |-> "failed to search files", hits |-> {}]
    ELSE [err |-> "ok",
          hits |-> UNION {SearchHits(x.name, tagName) : x \in taxonomies}]

\* DB.SearchByTag: [err, hits]; the query has no ORDER BY
DBSearchByTag(taxonomyName, tagName) ==
    IF ~initialized THEN [err |-> "failed to search files", hits |-> {}]
    ELSE [err |-> "ok", hits |-> SearchHits(taxonomyName, tagName)]

\* Manager.SearchByTag: [err, hits]
ManagerSearchByTag(taxonomyName, tagValue) ==
    IF taxonomyName = <<>> \/ tagValue = ""
    THEN [err |-> "taxonomy name and tag value are required", hits |-> {}]
    ELSE DBSearchByTag(NormalizeName(taxonomyName), tagValue)

\* HandleSearchCommand on the flag "--" \o name and the tag value: [err, hits]
HandleSearchCommand(name, tagValue) == ManagerSearchByTag(name, tagValue)

\* the orders in which a result set without ORDER BY can be delivered
Orderings(S) ==
    { s \in [1..Cardinality(S) -> S] : \A i, j \in 1..Cardinality(S) : s[i] = s[j] => i = j }

\* f.path || '/' || f.filename of every delivered row
SearchLines(s) ==
    [i \in DOMAIN s |-> Line("Found", SqlConcatPath(s[i].f.path, s[i].f.filename), <<>>)]

----------------------------------------------------------------------------
(* add *)

Register(reg, key, v) ==
    [k \in DOMAIN reg \cup {key} |-> IF k = key THEN v ELSE reg[k]]

\* CLI.addFile on the state st = [files, registered, out, dbfile] at the
\* clock reading now: [err, st]; dbfile is the database file as the
\* statements sent so far left it
CliAddFile(st, path, now) ==
    LET info == GetFileInfoAt(st.dbfile, path)
        rel == RelToCwd(Dir(path))
    IN  IF ~info.ok THEN [err |-> "failed to get file info", st |-> st]
        ELSE IF ~rel.ok THEN [err |-> "failed to get relative path", st |-> st]
        ELSE
          LET r == DBAddFile(st.files, Base(path), rel.path, info.hash, info.size,
                             info.mtime)
          IN  IF r.err # "ok"
              THEN [err |-> "failed to add file to database",
                    st |-> [st EXCEPT !.dbfile = DbTouched(@, now)]]
              ELSE [err |-> "ok",
                    st |-> [files |-> r.rows,
                            dbfile |-> DbStated(st.dbfile, r.rows # st.files, now),
                            registered |->
                                Register(st.registered, <<rel.path, Base(path)>>,
                                         [hash |-> info.hash, size |-> info.size,
                                          modified_at |-> info.mtime]),
                            out |-> Append(st.out, Line("Added", path, <<>>))]]

\* the walk of CLI.addDirectory: the first error of the callback ends the walk
RECURSIVE AddWalk(_, _, _)
AddWalk(st, visits, now) ==
    IF visits = <<>> THEN [err |-> "ok", st |-> st]
    ELSE IF IsDirPath(Head(visits)) \/ IsHidden(Head(visits))
    THEN AddWalk(st, Tail(visits), now)
    ELSE LET r == CliAddFile(st, Head(visits), now)
         IN  IF r.err # "ok" THEN r ELSE AddWalk(r.st, Tail(visits), now)

\* CLI.addDirectory: [err, st]
CliAddDirectory(st, path, now) == AddWalk(st, WalkEntriesAt(st.dbfile, path), now)

\* the loop over the matches of one pattern in HandleAddCommand
RECURSIVE AddMatches(_, _, _)
AddMatches(st, matches, now) ==
    IF matches = <<>> THEN st
    ELSE
      LET m == Head(matches)
          r == IF IsDirPath(m) THEN CliAddDirectory(st, m, now)
               ELSE CliAddFile(st, m, now)
          st1 == IF ~ExistsAt(st.dbfile, m)
                 THEN [st EXCEPT !.out = Append(@, Line("Warning", m, <<>>))]
                 ELSE IF r.err # "ok"
                 THEN [r.st EXCEPT !.out = Append(@, Line("Warning", m, <<>>))]
                 ELSE r.st
      IN  AddMatches(st1, Tail(matches), now)

\* the loop over the patterns in HandleAddCommand: every pattern is expanded
\* in the filesystem the patterns before it left
RECURSIVE AddPatterns(_, _, _)
AddPatterns(st, patterns, now) ==
    IF patterns = <<>> THEN st
    ELSE
      LET g == GlobAt(st.dbfile, Head(patterns))
          matches == IF g = <<>> /\ ~HasMeta(Head(patterns))
                     THEN <<Head(patterns)>> ELSE g
      IN  AddPatterns(AddMatches(st, matches, now), Tail(patterns), now)

\* CLI.HandleAddCommand at the clock reading now: [err, st]
HandleAddCommand(patterns, now) ==
    LET st == [files |-> files, registered |-> registered, out |-> <<>>,
               dbfile |-> dbfile]
    IN  IF patterns = <<>> THEN [err |-> "usage", st |-> st]
        ELSE [err |-> "ok", st |-> AddPatterns(st, patterns, now)]

----------------------------------------------------------------------------
(* verify *)

\* the files HandleVerifyCommand selects: [err, matches]
VerifySelect(path) ==
    IF HasMeta(path) THEN [err |-> "ok", matches |-> Glob(path)]
    ELSE IF ~Exists(path) THEN [err |-> "failed to walk directory", matches |-> <<>>]
    ELSE [err |-> "ok",
          matches |-> SelectSeq(WalkEntries(path),
                                LAMBDA p : ~IsDirPath(p) /\ ~IsHidden(p))]

\* a mutant of VerifyClassify: a file found at another path is reported new
VerifyClassifyMovedAsNew(filePath) ==
    LET info == GetFileInfo(filePath)
        m == DBGetFilePathByHash(info.hash)
    IN  IF ~info.ok THEN <<Line("Warning", filePath, <<>>)>>
        ELSE IF m.err # "ok" THEN <<Line("Warning", filePath, <<>>)>>
        ELSE IF m.path # filePath THEN <<Line("New", filePath, <<>>)>>
        ELSE <<>>

\* the body of the forward loop of HandleVerifyCommand: the lines printed for
\* one file; in a Moved line p is the scanned path and q the recorded one
VerifyClassify(filePath) ==
    LET info == GetFileInfo(filePath)
        m == DBGetFilePathByHash(info.hash)
    IN  IF ~info.ok THEN <<Line("Warning", filePath, <<>>)>>
        ELSE IF m.err # "ok" THEN <<Line("Warning", filePath, <<>>)>>
        ELSE IF m.path = <<>> THEN <<Line("New", filePath, <<>>)>>
        ELSE IF m.path # filePath THEN <<Line("Moved", filePath, m.path)>>
        ELSE <<>>

RECURSIVE VerifyForward(_)
VerifyForward(matches) ==
    IF matches = <<>> THEN <<>>
    ELSE VerifyClassify(Head(matches)) \o VerifyForward(Tail(matches))

\* a mutant of VerifyBackward: only the first record is looked at
VerifyBackwardFirstOnly(paths) ==
    IF paths = <<>> THEN <<>>
    ELSE IF ~Exists(Head(paths)) THEN <<Line("Missing", Head(paths), <<>>)>>
    ELSE <<>>

\* the backward loop of HandleVerifyCommand
RECURSIVE VerifyBackward(_)
VerifyBackward(paths) ==
    IF paths = <<>> THEN <<>>
    ELSE (IF ~Exists(Head(paths)) THEN <<Line("Missing", Head(paths), <<>>)>> ELSE <<>>)
         \o VerifyBackward(Tail(paths))

\* CLI.HandleVerifyCommand: [err, out, db]; db tells whether a statement was
\* sent to the database
HandleVerifyCommand(path) ==
    LET sel == VerifySelect(path)
        all == DBGetAllFiles(files)
    IN  IF sel.err # "ok" THEN [err |-> sel.err, out |-> <<>>, db |-> FALSE]
        ELSE IF all.err # "ok"
        THEN [err |-> "failed to get database files", out |-> VerifyForward(sel.matches),
              db |-> TRUE]
        ELSE [err |-> "ok", db |-> TRUE,
              out |-> VerifyForward(sel.matches) \o VerifyBackward(all.paths)]

----------------------------------------------------------------------------
(* check *)

\* CLI.checkSingleFile: [err, out, db]; db tells whether a statement was sent
\* to the database
CheckSingleFile(filePath) ==
    LET info == GetFileInfo(filePath)
        m == DBGetFilePathByHash(info.hash)
    IN  IF ~info.ok THEN [err |-> "failed to get file info", out |-> <<>>, db |-> FALSE]
        ELSE IF m.err # "ok"
        THEN [err |-> "failed to check file existence", out |-> <<>>, db |-> TRUE]
        ELSE IF m.path # <<>>
        THEN [err |-> "ok", out |-> <<Line("Exists", filePath, m.path)>>, db |-> TRUE]
        ELSE [err |-> "ok", out |-> <<Line("IsNew", filePath, <<>>)>>, db |-> TRUE]

\* the walk of HandleCheckCommand: the first error of checkSingleFile ends it
RECURSIVE CheckWalk(_, _, _)
CheckWalk(visits, printed, db) ==
    IF visits = <<>> THEN [err |-> "ok", out |-> printed, db |-> db]
    ELSE IF IsDirPath(Head(visits)) \/ IsHidden(Head(visits))
    THEN CheckWalk(Tail(visits), printed, db)
    ELSE LET r == CheckSingleFile(Head(visits))
         IN  IF r.err # "ok" THEN [err |-> r.err, out |-> printed, db |-> db \/ r.db]
             ELSE CheckWalk(Tail(visits), printed \o r.out, db \/ r.db)

\* CLI.HandleCheckCommand: [err, out, db]
HandleCheckCommand(path) ==
    IF ~Exists(path) THEN [err |-> "failed to access path", out |-> <<>>, db |-> FALSE]
    ELSE IF IsDirPath(path) THEN CheckWalk(WalkEntries(path), <<>>, FALSE)
    ELSE CheckSingleFile(path)

\* arguments of add, verify and check
AddArgs ==
    { << <<".">> >>, << <<"a.txt">>, <<"players", "a.txt">> >>,
      << <<"players", "*">> >>, << <<"nosuch">> >> }

VerifyTargets == { <<".">>, <<".", "a.txt">>, <<"players", "*">>, <<"nosuch">> }

CheckTargets == { <<"a.txt">>, <<".">>, <<"nosuch">> }

----------------------------------------------------------------------------
(* normalize *)

\* the characters of the file names of the model
FilenameChars(n) ==
    CASE n = "a.txt" -> <<"a", ".", "t", "x", "t">>
      [] n = "A.txt" -> <<"A", ".", "t", "x", "t">>
      [] n = "b.txt" -> <<"b", ".", "t", "x", "t">>
      [] n = ".fart" -> <<".", "f", "a", "r", "t">>
      [] n = "players" -> <<"p", "l", "a", "y", "e", "r", "s">>

KnownFilenames == {"a.txt", "A.txt", "b.txt", ".fart", "players"}

\* the file name with the given characters
FilenameOfChars(cs) == CHOOSE n \in KnownFilenames : FilenameChars(n) = cs

\* filepath.Ext: the suffix that starts at the last dot, empty without a dot
Ext(cs) ==
    LET dots == {i \in DOMAIN cs : cs[i] = "."}
    IN  IF dots = {} THEN <<>> ELSE SubSeq(cs, MaxOf(dots), Len(cs))

\* strings.ReplaceAll(name, "&", "and")
RECURSIVE ReplaceAmpersand(_)
ReplaceAmpersand(cs) ==
    IF cs = <<>> THEN <<>>
    ELSE (IF Head(cs) = "&" THEN <<"a", "n", "d">> ELSE <<Head(cs)>>)
         \o ReplaceAmpersand(Tail(cs))

\* strings.ReplaceAll(name, "'", "")
RemoveApostrophes(cs) == SelectSeq(cs, LAMBDA c : c # "'")

\* the letters and digits of the model's alphabet
LowerLetters == {"a", "b", "d", "e", "f", "l", "n", "p", "r", "s", "t", "x", "y"}

UpperLetters == {"A", "T"}

Digits == {"0", "1"}

\* camelCase.ReplaceAllString(name, "${1}-${2}"): a dash between a lower-case
\* letter or digit and the upper-case letter after it
RECURSIVE SplitCamelCase(_)
SplitCamelCase(cs) ==
    IF Len(cs) < 2 THEN cs
    ELSE IF cs[1] \in LowerLetters \cup Digits /\ cs[2] \in UpperLetters
    THEN <<cs[1], "-", cs[2]>> \o SplitCamelCase(SubSeq(cs, 3, Len(cs)))
    ELSE <<cs[1]>> \o SplitCamelCase(Tail(cs))

\* replaceSpecialChars: every character but letters, digits and '-' becomes '-'
ReplaceSpecialChars(cs) ==
    [i \in DOMAIN cs |->
        IF cs[i] \in LowerLetters \cup UpperLetters \cup Digits \cup {"-"}
        THEN cs[i] ELSE "-"]

\* regexp -+ replaced by a single '-'
RECURSIVE CollapseDashes(_)
CollapseDashes(cs) ==
    IF Len(cs) < 2 THEN cs
    ELSE IF cs[1] = "-" /\ cs[2] = "-" THEN CollapseDashes(Tail(cs))
    ELSE <<cs[1]>> \o CollapseDashes(Tail(cs))

\* strings.Trim(name, "-")
RECURSIVE TrimDashes(_)
TrimDashes(cs) ==
    IF cs # <<>> /\ Head(cs) = "-" THEN TrimDashes(Tail(cs))
    ELSE IF cs # <<>> /\ cs[Len(cs)] = "-" THEN TrimDashes(SubSeq(cs, 1, Len(cs) - 1))
    ELSE cs

\* fileops.NormalizeFilename on the characters of a name
NormalizeFilenameChars(cs) ==
    LET ext == Ext(cs)
        name0 == SubSeq(cs, 1, Len(cs) - Len(ext))
        name1 == RemoveApostrophes(ReplaceAmpersand(ToLower(name0)))
        name2 == ToLower(SplitCamelCase(name1))
    IN  TrimDashes(CollapseDashes(ReplaceSpecialChars(name2))) \o ext

\* fileops.NormalizeFilename
NormalizeFilename(n) == FilenameOfChars(NormalizeFilenameChars(FilenameChars(n)))

\* DB.UpdateFilePath(oldPath, newPath): [err, rows]. The record of oldPath
\* gets the directory and the filename of newPath; a record already at
\* newPath is a conflict on UNIQUE(path, filename)
DBUpdateFilePath(rows, oldPath, newPath) ==
    LET old == {r \in rows : r.path = Dir(oldPath) /\ r.filename = Base(oldPath)}
    IN  IF ~initialized THEN [err |-> "failed to update file path", rows |-> rows]
        ELSE IF old = {} THEN [err |-> "ok", rows |-> rows]
        ELSE IF \E r \in rows : r.path = Dir(newPath) /\ r.filename = Base(newPath)
        THEN [err |-> "failed to update file path", rows |-> rows]
        ELSE [err |-> "ok",
              rows |-> (rows \ old) \cup
                       { [r EXCEPT !.path = Dir(newPath), !.filename = Base(newPath)] :
                           r \in old }]

\* the registration history follows a record to its new key
MoveRegistration(reg, oldKey, newKey) ==
    IF oldKey \notin DOMAIN reg THEN reg
    ELSE [k \in (DOMAIN reg \ {oldKey}) \cup {newKey} |->
            IF k = newKey THEN reg[oldKey] ELSE reg[k]]

\* the files HandleNormalizeCommand selects: [err, matches]
NormalizeSelect(path) == VerifySelect(path)

\* the body of the loop of HandleNormalizeCommand on the state
\* st = [fs, files, registered, out, db, wrote]; db tells whether a statement
\* was sent to the database, wrote counts those that changed it
NormalizeOne(st, filePath) ==
    LET newPath == Join(Dir(filePath), NormalizeFilename(Base(filePath)))
        moved == [st.fs EXCEPT ![SlotOf(newPath)] = st.fs[SlotOf(filePath)],
                               ![SlotOf(filePath)] = NoFile]
        u == DBUpdateFilePath(st.files, filePath, newPath)
    IN  IF NormalizeFilename(Base(filePath)) = Base(filePath) THEN st
        ELSE IF st.fs[SlotOf(filePath)] = NoFile        \* os.Rename fails
        THEN [st EXCEPT !.out = Append(@, Line("Warning", filePath, <<>>))]
        ELSE IF u.err # "ok"
        THEN [st EXCEPT !.fs = moved, !.db = TRUE,
                        !.out = Append(@, Line("Warning", filePath, <<>>))]
        ELSE [st EXCEPT !.fs = moved, !.db = TRUE,
                        !.files = u.rows,
                        !.wrote = IF u.rows # st.files THEN @ + 1 ELSE @,
                        !.registered = IF u.rows # st.files
                                       THEN MoveRegistration(@,
                                              <<Dir(filePath), Base(filePath)>>,
                                              <<Dir(newPath), Base(newPath)>>)
                                       ELSE @,
                        !.out = Append(@, Line("Normalized", filePath, newPath))]

RECURSIVE NormalizeLoop(_, _)
NormalizeLoop(st, matches) ==
    IF matches = <<>> THEN st
    ELSE NormalizeLoop(NormalizeOne(st, Head(matches)), Tail(matches))

\* CLI.HandleNormalizeCommand: [err, st]
HandleNormalizeCommand(path) ==
    LET st == [fs |-> fs, files |-> files, registered |-> registered, out |-> <<>>,
               db |-> FALSE, wrote |-> 0]
        sel == NormalizeSelect(path)
    IN  IF sel.err # "ok" THEN [err |-> sel.err, st |-> st]
        ELSE [err |-> "ok", st |-> NormalizeLoop(st, sel.matches)]

NormalizeTargets == { <<".">>, <<"*">>, <<"nosuch">> }

----------------------------------------------------------------------------
(* Calls *)

Call(op, args) ==
    [op |-> op, args |-> args,
     again |-> last.op = op /\ last.args = args /\ err = "ok"]

Init ==
    /\ initialized = FALSE
    /\ files = {}
    /\ taxonomies = {}
    /\ tags = {}
    /\ file_tags = EmptyBag
    /\ fs = [s \in Slots |-> NoFile]
    /\ dbfile = NoDbFile
    /\ out = <<>>
    /\ err = "ok"
    /\ last = [op |-> "new", args |-> <<>>, again |-> FALSE]
    /\ registered = <<>>

\* fart init: DB.Initialize
Initialize ==
    /\ initialized' = TRUE
    /\ taxonomies' = InsertDefaultTaxonomy(taxonomies)
    /\ err' = "ok"
    /\ out' = <<>>
    /\ last' = Call("init", <<>>)
    /\ dbfile' \in DbAfter(TRUE, IF initialized THEN 0 ELSE 1)
    /\ UNCHANGED <<files, tags, file_tags, fs, registered>>

\* DB.AddFile(filename, path, hash, size, modifiedAt)
AddFile(filename, path, v) ==
    LET r == DBAddFile(files, filename, path, v.hash, v.size, v.modified_at)
        key == <<path, filename>>
    IN  /\ files' = r.rows
        /\ err' = r.err
        /\ registered' = IF r.err = "ok" THEN Register(registered, key, v)
                         ELSE registered
        /\ out' = <<>>
        /\ last' = Call("AddFile", <<filename, path, v>>)
        /\ dbfile' \in DbAfter(TRUE, IF r.rows # files THEN 1 ELSE 0)
        /\ UNCHANGED <<initialized, taxonomies, tags, file_tags, fs>>

\* fart taxonomy init <name>: HandleTaxonomyCommand -> Manager.InitTaxonomy
TaxonomyInit(name) ==
    LET r == ManagerInitTaxonomy(name)
    IN  /\ taxonomies' = r.rows
        /\ err' = r.err
        /\ out' = <<>>
        /\ last' = Call("taxonomy", <<name>>)
        /\ dbfile' \in DbAfter(name # <<>>, IF r.rows # taxonomies THEN 1 ELSE 0)
        /\ UNCHANGED <<initialized, files, tags, file_tags, fs, registered>>

\* parseTaxonomyFlag on "--" \o name: [err, name]
ParseTaxonomyFlag(name) ==
    IF name = <<>> THEN [err |-> "taxonomy name cannot be empty", name |-> <<>>]
    ELSE [err |-> "ok", name |-> name]

\* HandleTagCommand: [err, db]. flag is <<>> without a taxonomy flag and
\* <<name>> for --name; tagValue is the value that reaches the manager
\* (args[2], or the argument after the flag)
HandleTagCommand(filePath, flag, tagValue, fault) ==
    LET parsed == IF flag = <<>> THEN [err |-> "ok", name |-> Tags]
                  ELSE ParseTaxonomyFlag(flag[1])
        absPath == IF IsAbs(filePath) THEN filePath ELSE Abs(filePath)
    IN  IF parsed.err # "ok"
        THEN [err |-> parsed.err,
              db |-> [taxonomies |-> taxonomies, tags |-> tags, file_tags |-> file_tags]]
        ELSE ManagerTagFile(absPath, parsed.name, tagValue, fault)

\* the errors returned before a statement is sent to the database
NoStatementErrors ==
    { "taxonomy name cannot be empty",
      "file path, taxonomy name, and tag value are required",
      "taxonomy name and tag value are required",
      "begin" }

\* fart tag <file> <value> [--<taxonomy> <value>]; every commit writes .fart
Tag(filePath, flag, tagValue, fault) ==
    \E r \in {HandleTagCommand(filePath, flag, tagValue, fault)} :
        /\ taxonomies' = r.db.taxonomies
        /\ tags' = r.db.tags
        /\ file_tags' = r.db.file_tags
        /\ err' = r.err
        /\ out' = <<>>
        /\ last' = Call("tag", <<filePath, flag, tagValue, fault>>)
        /\ dbfile' \in DbAfter(r.err \notin NoStatementErrors,
                                IF r.err = "ok" THEN 1 ELSE 0)
        /\ UNCHANGED <<initialized, files, fs, registered>>

Next ==
    \/ Initialize
    \/ \E f \in Filenames, d \in Dirs, v \in FileVersions : AddFile(f, d, v)

Spec == Init /\ [][Next]_vars

\* the observation registered by the tagging behaviours
OneVersion == [hash |-> HashOf(1), size |-> SizeOf(1), modified_at |-> "t1"]

NextTag ==
    \/ Initialize
    \/ \E d \in Dirs : AddFile("a.txt", d, OneVersion)
    \/ \E n \in {<<"A">>, <<"T", "a", "g", "s">>} : TaxonomyInit(n)
    \/ \E p \in TagPaths, fl \in TagFlags, v \in TagValues, ft \in TagFaults :
          Tag(p, fl, v, ft)

SpecTag == Init /\ [][NextTag]_vars

\* fart add <patterns>
Add(patterns) ==
    \E now \in Times : \E r \in {HandleAddCommand(patterns, now)} :
        /\ r.st.dbfile.writes <= MaxDbWrites
        /\ dbfile' = r.st.dbfile
        /\ files' = r.st.files
        /\ registered' = r.st.registered
        /\ out' = r.st.out
        /\ err' = r.err
        /\ last' = Call("add", <<patterns>>)
        /\ UNCHANGED <<initialized, taxonomies, tags, file_tags, fs>>

\* fart verify <path>
Verify(path) ==
    \E r \in {HandleVerifyCommand(path)} :
        /\ out' = r.out
        /\ err' = r.err
        /\ last' = Call("verify", <<path>>)
        /\ dbfile' \in DbAfter(r.db, 0)
        /\ UNCHANGED <<initialized, files, taxonomies, tags, file_tags, fs, registered>>

\* fart check <path>
Check(path) ==
    \E r \in {HandleCheckCommand(path)} :
        /\ out' = r.out
        /\ err' = r.err
        /\ last' = Call("check", <<path>>)
        /\ dbfile' \in DbAfter(r.db, 0)
        /\ UNCHANGED <<initialized, files, taxonomies, tags, file_tags, fs, registered>>

\* the environment changes the filesystem between two commands
FsChanged(newFs) ==
    /\ fs' = newFs
    /\ out' = <<>>
    /\ err' = "ok"
    /\ last' = [op |-> "fs", args |-> <<>>, again |-> FALSE]
    /\ UNCHANGED <<initialized, files, taxonomies, tags, file_tags, dbfile, registered>>

\* a file is created or overwritten
WriteFile(slot, c) ==
    /\ fs[slot] # [content |-> c, mtime |-> "t1", readable |-> TRUE]
    /\ FsChanged([fs EXCEPT ![slot] = [content |-> c, mtime |-> "t1", readable |-> TRUE]])

\* a file is removed
RemoveFile(slot) ==
    /\ fs[slot] # NoFile
    /\ FsChanged([fs EXCEPT ![slot] = NoFile])

\* a file loses its read permission
MakeUnreadable(slot) ==
    /\ fs[slot] # NoFile
    /\ fs[slot].readable
    /\ FsChanged([fs EXCEPT ![slot] = Unreadable])

NextFs ==
    \/ Initialize
    \/ \E s \in FileSlots, c \in Contents : WriteFile(s, c)
    \/ \E s \in FileSlots : RemoveFile(s)
    \/ \E s \in FileSlots : MakeUnreadable(s)
    \/ \E a \in AddArgs : Add(a)
    \/ \E t \in VerifyTargets : Verify(t)
    \/ \E t \in CheckTargets : Check(t)

SpecFs == Init /\ [][NextFs]_vars

\* fart normalize <path>
Normalize(path) ==
    \E r \in {HandleNormalizeCommand(path)} :
        /\ fs' = r.st.fs
        /\ files' = r.st.files
        /\ registered' = r.st.registered
        /\ out' = r.st.out
        /\ err' = r.err
        /\ last' = Call("normalize", <<path>>)
        /\ dbfile' \in DbAfter(r.st.db, r.st.wrote)
        /\ UNCHANGED <<initialized, taxonomies, tags, file_tags>>

NextNormalize ==
    \/ Initialize
    \/ \E s \in {<<"A.txt">>, <<"a.txt">>}, c \in Contents : WriteFile(s, c)
    \/ Add(<< <<".">> >>)
    \/ \E t \in NormalizeTargets : Normalize(t)

SpecNormalize == Init /\ [][NextNormalize]_vars

\* arguments of add and check that reach the database file
DbFileAddArgs ==
    { << <<".fart">> >>, << <<"*">> >>, << <<"a.txt">>, <<"*">> >>,
      << <<"a.txt">>, <<".fart">> >> }

DbFileCheckTargets == { <<".fart">>, <<"a.txt">> }

NextDbFile ==
    \/ Initialize
    \/ \E c \in Contents : WriteFile(<<"a.txt">>, c)
    \/ \E a \in DbFileAddArgs : Add(a)
    \/ \E t \in DbFileCheckTargets : Check(t)
    \/ Verify(<<"*">>)

SpecDbFile == Init /\ [][NextDbFile]_vars

NextTaxonomy ==
    \/ Initialize
    \/ \E n \in TaxonomyNames : TaxonomyInit(n)

SpecTaxonomy == Init /\ [][NextTaxonomy]_vars

\* fart search --<taxonomy> <value>
Search(name, tagValue) ==
    LET r == HandleSearchCommand(name, tagValue)
    IN  /\ \E s \in Orderings(r.hits) : out' = SearchLines(s)
        /\ err' = r.err
        /\ last' = Call("search", <<name, tagValue>>)
        /\ dbfile' \in DbAfter(r.err \notin NoStatementErrors, 0)
        /\ UNCHANGED <<initialized, files, taxonomies, tags, file_tags, fs, registered>>

\* DB.GetFilePathByHash(hash), the returned string shown
FindPathByHash(hash) ==
    LET r == DBGetFilePathByHash(hash)
    IN  /\ out' = IF r.err = "ok" THEN <<Line("Path", r.path, <<>>)>> ELSE <<>>
        /\ err' = r.err
        /\ last' = Call("GetFilePathByHash", <<hash>>)
        /\ dbfile' \in DbAfter(TRUE, 0)
        /\ UNCHANGED <<initialized, files, taxonomies, tags, file_tags, fs, registered>>

\* DB.FileExists(hash), the returned boolean shown
FileExists(hash) ==
    LET r == DBFileExists(hash)
    IN  /\ out' = IF r.err # "ok" THEN <<>>
                  ELSE <<Line(IF r.exists THEN "HashExists" ELSE "HashAbsent", <<>>, <<>>)>>
        /\ err' = r.err
        /\ last' = Call("FileExists", <<hash>>)
        /\ dbfile' \in DbAfter(TRUE, 0)
        /\ UNCHANGED <<initialized, files, taxonomies, tags, file_tags, fs, registered>>

\* the observations registered by the search behaviours
SearchVersions ==
    { OneVersion, [hash |-> HashOf(2), size |-> SizeOf(2), modified_at |-> "t2"] }

\* the tag commands before a search: <<file, taxonomy flag, value>>
SearchTagCalls ==
    { << <<"a.txt">>, <<>>, "x" >>,
      << <<"a.txt">>, << <<"A">> >>, "x" >>,
      << <<"b.txt">>, << <<"a", " ">> >>, "x" >>,
      << <<"b.txt">>, <<>>, "X" >> }

SearchTagValues == {"x", "X"}

\* the taxonomy names of the search flag
SearchNames == { <<>>, <<"t", "a", "g", "s">>, <<"A">>, <<" ", "a">>, <<"b">> }

NextSearch ==
    \/ Initialize
    \/ \E f \in Filenames, v \in SearchVersions : AddFile(f, PlayersDir, v)
    \/ TaxonomyInit(<<" ", "A">>)
    \/ \E c \in SearchTagCalls : Tag(c[1], c[2], c[3], "none")
    \/ \E n \in SearchNames, v \in SearchTagValues : Search(n, v)

SpecSearch == Init /\ [][NextSearch]_vars

\* the hashes looked up: of both registered contents and of none
LookupHashes == { HashOf(1), HashOf(2), HashOf(0) }

NextLookup ==
    \/ Initialize
    \/ \E f \in Filenames, d \in Dirs, v \in SearchVersions : AddFile(f, d, v)
    \/ \E h \in LookupHashes : FindPathByHash(h)
    \/ \E h \in LookupHashes : FileExists(h)

SpecLookup == Init /\ [][NextLookup]_vars

----------------------------------------------------------------------------
(* Registration *)

RowsOf(key) == {r \in files : r.path = key[1] /\ r.filename = key[2]}

\* the files table holds one row per registered key, with the values of the
\* key's last registration
OneRecordPerKey ==
    /\ {<<r.path, r.filename>> : r \in files} = DOMAIN registered
    /\ \A key \in DOMAIN registered :
         /\ Cardinality(RowsOf(key)) = 1
         /\ \A r \in RowsOf(key) :
              /\ r.hash = registered[key].hash
              /\ r.size = registered[key].size
              /\ r.modified_at = registered[key].modified_at

\* a successful AddFile of an already registered key adds no row, and with the
\* values the key already has it leaves the whole catalog as it was
ReRegistrationStep ==
    (/\ last'.op = "AddFile"
     /\ err' = "ok"
     /\ <<last'.args[2], last'.args[1]>> \in DOMAIN registered)
    => /\ {r.id : r \in files'} = {r.id : r \in files}
       /\ Cardinality(files') = Cardinality(files)
       /\ registered[<<last'.args[2], last'.args[1]>>] = last'.args[3]
            => catalog' = catalog

\* C1: after any sequence of AddFile calls the catalog holds exactly one
\* FileRecord per (directory, filename) ever registered, carrying the hash,
\* size and modified-at of the last registration of that pair; registering a
\* pair again with identical values leaves the catalog unchanged, and with
\* different values it changes the existing record and adds none.
C1_UpsertRegistration == []OneRecordPerKey /\ [][ReRegistrationStep]_vars

\* C1 witness: a registered pair was registered again with other content and
\* kept its single row, beside another record
C1_Witness ==
    /\ last.op = "AddFile"
    /\ err = "ok"
    /\ Cardinality(files) = 2
    /\ \E r \in files :
         /\ r.filename = last.args[1] /\ r.path = last.args[2]
         /\ r.id = 1
         /\ r.hash = HashOf(2)
         /\ r.hash = last.args[3].hash

----------------------------------------------------------------------------
(* Tagging *)

\* the arguments of a tag call: <<filePath, flag, tagValue, fault>>
ValidTagCall(a) == a[3] # "" /\ (a[2] = <<>> \/ a[2][1] # <<>>)

\* the taxonomy a tag call names: the default, or the flag's name normalized
TaxonomyOfCall(a) == IF a[2] = <<>> THEN Tags ELSE NormalizeName(a[2][1])

\* the records at the real relative directory and filename of a path
RecordsAt(p) == {r \in files : r.path = RelToCwd(Dir(p)).path /\ r.filename = Base(p)}

\* the tags of the given tables with the given taxonomy name and value
TagsNamed(taxs, tgs, taxonomyName, value) ==
    {t \in tgs : t.name = value
                 /\ \E x \in taxs : x.name = taxonomyName /\ x.id = t.taxonomy_id}

TagResolvesStep ==
    (/\ last'.op = "tag"
     /\ initialized
     /\ ValidTagCall(last'.args)
     /\ last'.args[4] = "none"
     /\ RecordsAt(last'.args[1]) # {})
    => /\ err' = "ok"
       /\ \A r \in RecordsAt(last'.args[1]) :
            \E t \in TagsNamed(taxonomies', tags', TaxonomyOfCall(last'.args),
                               last'.args[3]) :
               BagIn(<<r.id, t.id>>, file_tags')
       /\ \A r \in files \ RecordsAt(last'.args[1]) : \A t \in tags' :
            CopiesIn(<<r.id, t.id>>, file_tags') = CopiesIn(<<r.id, t.id>>, file_tags)

\* C2: Tag resolves the target record by the real relative directory and the
\* filename of the path: tagging the path of a registered record succeeds and
\* attaches the association to that record and to no record of another
\* directory.
C2_TagResolvesRealDirectory == [][TagResolvesStep]_vars

TagAtomicStep ==
    last'.op = "tag"
    => /\ err' # "ok" => catalog' = catalog
       /\ err' = "ok" =>
            \E t \in TagsNamed(taxonomies', tags', TaxonomyOfCall(last'.args),
                               last'.args[3]) :
               \E f \in files' : BagIn(<<f.id, t.id>>, file_tags')

\* C3: a Tag call that fails at any step leaves taxonomies, tags and
\* associations (the whole catalog) exactly as before the call; a Tag call
\* that succeeds leaves the taxonomy, the tag and the association present.
C3_TagAllOrNothing == [][TagAtomicStep]_vars

\* C3 witness: the association insert failed in a call that had to create
\* both the taxonomy and the tag, and neither is left
C3_Witness ==
    /\ last.op = "tag"
    /\ last.args[4] = "link"
    /\ err = "failed to tag file"
    /\ last.args[2] = << <<"A">> >>
    /\ \A x \in taxonomies : x.name # <<"a">>
    /\ tags = {}

TagsUnique ==
    \A t1, t2 \in tags :
        (t1.taxonomy_id = t2.taxonomy_id /\ t1.name = t2.name) => t1 = t2

AssociationsUnique ==
    \A e \in BagToSet(file_tags) : CopiesIn(e, file_tags) = 1

TagAgainStep ==
    (last'.op = "tag" /\ last'.again)
    => /\ err' = "ok"
       /\ catalog' = catalog
       /\ Cardinality({x \in taxonomies' : x.name = TaxonomyOfCall(last'.args)}) = 1
       /\ Cardinality(TagsNamed(taxonomies', tags', TaxonomyOfCall(last'.args),
                                last'.args[3])) = 1

\* C4: repeating a successful Tag call succeeds and leaves the catalog equal
\* to the catalog after the first call, with one taxonomy of that name and one
\* tag of that (taxonomy, value); after any sequence of Tag calls no two
\* associations share (fileId, tagId) and no two tags share (taxonomyId, name).
C4_TagIdempotent == [](TagsUnique /\ AssociationsUnique) /\ [][TagAgainStep]_vars

\* C4 witness: a Tag call under a non-default taxonomy was repeated
C4_Witness ==
    /\ last.op = "tag"
    /\ last.again
    /\ err = "ok"
    /\ last.args[2] = << <<"A">> >>
    /\ BagCardinality(file_tags) = 1

----------------------------------------------------------------------------
(* Taxonomy definition *)

\* C10: DefineTaxonomy rejects every empty or whitespace-only name with a
\* validation error, so no taxonomy row with an empty name ever exists.
C10_RejectsBlankNames ==
    /\ (initialized /\ last.op = "taxonomy" /\ TrimSpace(last.args[1]) = <<>>)
         => err = "taxonomy name cannot be empty"
    /\ \A x \in taxonomies : x.name # <<>>

----------------------------------------------------------------------------
(* Reconciliation *)

Range(seq) == {seq[i] : i \in DOMAIN seq}

\* the positions of the printed lines of a kind about a path
LinesOf(k, p) == {i \in DOMAIN out : out[i].k = k /\ out[i].p = p}

\* the full path of a record
RecordPath(r) == Join(r.path, r.filename)

\* the paths the forward pass of the last verify scanned
Scanned == Range(VerifySelect(last.args[1]).matches)

\* a scanned path that is live and whose content hash was computed
Hashed(p) == GetFileInfo(p).ok

HashAt(p) == GetFileInfo(p).hash

\* C5: verify prints neither New nor Moved for a scanned live path p when the
\* catalog holds a record whose path is p and whose hash is the current hash
\* of p, whatever else the catalog holds.
C5_UnchangedNotReported ==
    (last.op = "verify" /\ err = "ok")
    => \A p \in Scanned :
         (Hashed(p) /\ \E r \in files : RecordPath(r) = Clean(p) /\ r.hash = HashAt(p))
         => LinesOf("New", p) = {} /\ LinesOf("Moved", p) = {}

\* the same for the paths whose hash no record of another path has: the
\* reports about an unchanged file do not need a second record of its hash
UnchangedNotReportedOfSingleRecord ==
    (last.op = "verify" /\ err = "ok")
    => \A p \in Scanned :
         (/\ Hashed(p)
          /\ \E r \in files : RecordPath(r) = Clean(p) /\ r.hash = HashAt(p)
          /\ \A r \in files : r.hash = HashAt(p) => RecordPath(r) = Clean(p))
         => LinesOf("New", p) = {} /\ LinesOf("Moved", p) = {}

\* C6: for a scanned live path p whose hash GetFilePathByHash finds at a
\* recorded path q other than p, verify prints exactly one Moved line for p,
\* from q, and no New line for p; when nothing exists at q the same run prints
\* Missing for the record at q (in the directory/filename form of GetAllFiles).
C6_MovedReported ==
    last.op = "verify"
    => \A p \in Scanned :
         LET m == DBGetFilePathByHash(HashAt(p))
         IN  (Hashed(p) /\ m.err = "ok" /\ m.path # <<>> /\ m.path # p)
             => /\ Cardinality(LinesOf("Moved", p)) = 1
                /\ \A i \in LinesOf("Moved", p) : out[i].q = m.path
                /\ LinesOf("New", p) = {}
                /\ \E r \in files : RecordPath(r) = m.path /\ r.hash = HashAt(p)
                /\ ~Exists(m.path)
                     => \E i \in DOMAIN out :
                           out[i].k = "Missing" /\ Clean(out[i].p) = m.path

\* C6 witness: a file recorded at one path is found at another one, nothing is
\* left at the recorded path, and the run printed Moved and Missing
C6_Witness ==
    /\ last.op = "verify"
    /\ \E i, j \in DOMAIN out :
         /\ out[i].k = "Moved"
         /\ out[j].k = "Missing"
         /\ Clean(out[j].p) = out[i].q
         /\ ~Exists(out[i].q)
         /\ Exists(out[i].p)

\* C7: a verify run on an initialized catalog prints Missing once for exactly
\* the records whose path does not exist, whatever was selected for the
\* forward pass.
C7_MissingExactly ==
    (last.op = "verify" /\ initialized)
    => \A r \in files :
         Cardinality(LinesOf("Missing", SqlConcatPath(r.path, r.filename)))
           = IF Exists(RecordPath(r)) THEN 0 ELSE 1

\* the lines check prints are "exists at" and "is new" lines that tell whether
\* a record has the hash of the file
CheckLinesRight ==
    \A i \in DOMAIN out :
        /\ out[i].k \in {"Exists", "IsNew"}
        /\ Hashed(out[i].p)
        /\ out[i].k = "IsNew" => \A r \in files : r.hash # HashAt(out[i].p)
        /\ out[i].k = "Exists"
             => \E r \in files : r.hash = HashAt(out[i].p) /\ RecordPath(r) = out[i].q

\* C8: on an initialized catalog verify prints New, once, for exactly the
\* scanned paths whose computed hash no record currently has; check prints
\* "is new" under the same condition and "exists at X", X the path of a record
\* with that hash, otherwise, one line for a readable file, and never Missing.
C8_NewExactly ==
    /\ (last.op = "verify" /\ initialized)
       => \A p \in Scanned :
            Hashed(p)
            => Cardinality(LinesOf("New", p))
                 = IF \E r \in files : r.hash = HashAt(p) THEN 0 ELSE 1
    /\ (last.op = "check" /\ initialized)
       => /\ CheckLinesRight
          /\ (err = "ok" /\ ~IsDirPath(last.args[1]))
               => Len(out) = 1 /\ out[1].p = last.args[1]

\* C8 witness: verify printed New for a file whose path is recorded with
\* another hash, while the other scanned file, recorded as it is, got none
C8_Witness ==
    /\ last.op = "verify"
    /\ initialized
    /\ Cardinality(Scanned) = 2
    /\ \E p \in Scanned :
         /\ LinesOf("New", p) # {}
         /\ \E r \in files : RecordPath(r) = p /\ r.hash # HashAt(p)
    /\ \E p \in Scanned : Hashed(p) /\ LinesOf("New", p) = {}

\* the regular, not hidden files below a path
FilesBelow(p) ==
    IF ~Exists(p) THEN {}
    ELSE {x \in Range(WalkEntries(p)) : ~IsDirPath(x) /\ ~IsHidden(x)}

\* the files an add run is asked to process
RECURSIVE AddSelection(_)
AddSelection(patterns) ==
    IF patterns = <<>> THEN {}
    ELSE UNION {FilesBelow(m) : m \in Range(Glob(Head(patterns)))}
         \cup AddSelection(Tail(patterns))

\* C9: add, verify and check on a directory go on after a file that fails:
\* an add run registers every readable file of its selection, a check of a
\* directory prints a line for every readable file below it, and verify
\* prints a warning for every file it cannot hash.
C9_BulkIsolatesFailures ==
    /\ (last.op = "add" /\ initialized)
       => \A p \in AddSelection(last.args[1]) :
            Hashed(p) => \E r \in files : RecordPath(r) = Clean(p) /\ r.hash = HashAt(p)
    /\ (last.op = "check" /\ initialized)
       => \A p \in FilesBelow(last.args[1]) :
            Hashed(p) => \E i \in DOMAIN out : out[i].p = p
    /\ (last.op = "verify" /\ err = "ok")
       => \A p \in Scanned : ~Hashed(p) => LinesOf("Warning", p) # {}

----------------------------------------------------------------------------
(* Taxonomy names *)

TaxonomiesUnique ==
    \A x, y \in taxonomies : x.name = y.name => x = y

\* the taxonomy rows of the given table with the given name
TaxonomiesNamed(taxs, name) == {x \in taxs : x.name = name}

\* taxonomy init of a name whose normalized form is stored is rejected by the
\* store and adds nothing
DuplicateTaxonomyStep ==
    (/\ last'.op = "taxonomy"
     /\ initialized
     /\ TaxonomiesNamed(taxonomies, NormalizeName(last'.args[1])) # {})
    => /\ err' = "failed to add taxonomy"
       /\ taxonomies' = taxonomies

\* a tag call that names a stored taxonomy and meets no storage failure ends
\* "ok" or "file not found", adds no taxonomy, and on success its tag belongs
\* to the stored row
TagReusesStep ==
    (/\ last'.op = "tag"
     /\ initialized
     /\ ValidTagCall(last'.args)
     /\ last'.args[4] = "none"
     /\ TaxonomiesNamed(taxonomies, TaxonomyOfCall(last'.args)) # {})
    => /\ err' \in {"ok", "file not found"}
       /\ taxonomies' = taxonomies
       /\ err' = "ok" =>
            \A x \in TaxonomiesNamed(taxonomies, TaxonomyOfCall(last'.args)) :
               \E tg \in tags' :
                  /\ tg.name = last'.args[3] /\ tg.taxonomy_id = x.id
                  /\ \E f \in files : BagIn(<<f.id, tg.id>>, file_tags')

\* C11: explicitly creating a taxonomy whose normalized name already exists
\* ("tags" after initialization, or a name an earlier tag call created) fails
\* with the store's error and leaves the taxonomies unchanged; a tag call with
\* an existing taxonomy name does not fail because of the name and uses the
\* existing row; no two taxonomy rows ever have the same name.
C11_DuplicateTaxonomy ==
    []TaxonomiesUnique /\ [][DuplicateTaxonomyStep /\ TagReusesStep]_vars

\* C11 witness: taxonomy init of "A" was rejected while the taxonomy "a" and
\* "tags" are stored and a tag of a file belongs to "a"
C11_Witness ==
    /\ last.op = "taxonomy"
    /\ last.args[1] = <<"A">>
    /\ err = "failed to add taxonomy"
    /\ Cardinality(taxonomies) = 2
    /\ \E x \in TaxonomiesNamed(taxonomies, <<"a">>) :
         \E tg \in tags : tg.taxonomy_id = x.id /\ tg.name = "x"
                           /\ \E f \in files : BagIn(<<f.id, tg.id>>, file_tags)

\* a name after trimming and lower-casing
NormalForm(name) == ToLower(TrimSpace(name))

\* a name without surrounding white space and without upper-case letters
IsNormalForm(name) ==
    /\ \A i \in DOMAIN name : Lower(name[i]) = name[i]
    /\ name # <<>> => (~IsSpace(name[1]) /\ ~IsSpace(name[Len(name)]))

\* every stored taxonomy name is in trimmed lower-case form
NamesNormalized ==
    \A x \in taxonomies : IsNormalForm(x.name)

\* searches by two names with the same normal form give the same answer
SearchNormalized ==
    \A n1, n2 \in SearchNames, v \in SearchTagValues :
        (n1 # <<>> /\ n2 # <<>> /\ NormalForm(n1) = NormalForm(n2))
        => HandleSearchCommand(n1, v) = HandleSearchCommand(n2, v)

\* the normal form of the taxonomy name of a tag call
NormalTaxonomyOfCall(a) == IF a[2] = <<>> THEN Tags ELSE NormalForm(a[2][1])

\* a successful taxonomy init or tag call leaves exactly one row with the
\* normal form of the name it was given; the tag of a tag call carries the
\* value as given, under that row, and no tag of another value gains an
\* association
NameResolvesStep ==
    /\ (last'.op = "taxonomy" /\ err' = "ok")
       => Cardinality(TaxonomiesNamed(taxonomies', NormalForm(last'.args[1]))) = 1
    /\ (last'.op = "tag" /\ err' = "ok")
       => /\ Cardinality(TaxonomiesNamed(taxonomies', NormalTaxonomyOfCall(last'.args))) = 1
          /\ \E tg \in TagsNamed(taxonomies', tags', NormalTaxonomyOfCall(last'.args),
                                   last'.args[3]) :
                \E f \in files : BagIn(<<f.id, tg.id>>, file_tags')
          /\ \A tg \in tags' : \A f \in files :
                tg.name # last'.args[3]
                => CopiesIn(<<f.id, tg.id>>, file_tags') = CopiesIn(<<f.id, tg.id>>, file_tags)

\* C12: taxonomy names are case-insensitive and whitespace-trimmed across
\* taxonomy init, tag and search: names equal after trimming and lower-casing
\* resolve to the same taxonomy row, every stored taxonomy name is in trimmed
\* lower-case form, and tag values are kept as given.
C12_NamesNormalized ==
    [](NamesNormalized /\ TaxonomiesUnique /\ SearchNormalized)
    /\ [][NameResolvesStep]_vars

\* C12 witness: a search for " a" found a file tagged under "A" or "a ",
\* while the values "x" and "X" are two tags of the taxonomy "tags"
C12_Witness ==
    /\ last.op = "search"
    /\ last.args = << <<" ", "a">>, "x" >>
    /\ err = "ok"
    /\ out # <<>>
    /\ Cardinality(taxonomies) = 2
    /\ TagsNamed(taxonomies, tags, Tags, "x") # {}
    /\ TagsNamed(taxonomies, tags, Tags, "X") # {}

----------------------------------------------------------------------------
(* Initialization *)

\* Initialize on an initialized catalog changes no row
InitializeAgainStep ==
    (last'.op = "init" /\ initialized) => (catalog' = catalog /\ err' = "ok")

\* once initialized the catalog has exactly one taxonomy named "tags"
OneDefaultTaxonomy ==
    initialized => Cardinality(TaxonomiesNamed(taxonomies, Tags)) = 1

\* C13: Initialize is idempotent: on an initialized catalog of any content it
\* leaves every row unchanged, and after any number of Initialize calls
\* exactly one taxonomy named "tags" exists.
C13_InitializeIdempotent ==
    []OneDefaultTaxonomy /\ [][InitializeAgainStep]_vars

\* C13 witness: Initialize ran on a catalog that holds a file, a second
\* taxonomy, a tag and an association
C13_Witness ==
    /\ last.op = "init"
    /\ err = "ok"
    /\ files # {}
    /\ Cardinality(taxonomies) = 2
    /\ tags # {}
    /\ file_tags # EmptyBag

----------------------------------------------------------------------------
(* Search results *)

\* the records associated to a tag of the given value whose taxonomy has the
\* normal form of the given name
Tagged(name, value) ==
    { f \in files :
        \E tg \in TagsNamed(taxonomies, tags, NormalForm(name), value) :
            BagIn(<<f.id, tg.id>>, file_tags) }

\* the name a search has to give to find what a tag call attached
SearchNameOf(a) == IF a[2] = <<>> THEN Tags ELSE a[2][1]

\* on an initialized catalog a search with a name and a value succeeds and
\* delivers one row per tagged record
SearchAnswers ==
    initialized =>
      \A n \in SearchNames \ {<<>>}, v \in SearchTagValues :
        /\ HandleSearchCommand(n, v).err = "ok"
        /\ {h.f : h \in HandleSearchCommand(n, v).hits} = Tagged(n, v)
        /\ Cardinality(HandleSearchCommand(n, v).hits) = Cardinality(Tagged(n, v))

\* what the last search printed: directory/filename of each tagged record, once
SearchPrinted ==
    (last.op = "search" /\ initialized /\ last.args[1] # <<>>)
    => /\ err = "ok"
       /\ Range(out) = { Line("Found", SqlConcatPath(f.path, f.filename), <<>>) :
                           f \in Tagged(last.args[1], last.args[2]) }
       /\ Len(out) = Cardinality(Tagged(last.args[1], last.args[2]))

\* the record a successful tag call attached its tag to is found by the
\* search for the call's taxonomy and value
TaggedIsFound ==
    (last.op = "tag" /\ err = "ok")
    => \E h \in HandleSearchCommand(SearchNameOf(last.args), last.args[3]).hits :
          h.f.filename = Base(last.args[1])

\* C14: Search(taxonomyName, tagValue) returns exactly the directory/filename
\* paths of the records associated to a tag of that value in the taxonomy of
\* the normalized name: a file with the same value under another taxonomy is
\* not returned, a file tagged by a successful tag call is returned by the
\* matching search, and without a match the result is empty and no error.
C14_SearchExact == SearchAnswers /\ SearchPrinted /\ TaggedIsFound

\* C14 witness: the search for "x" in "tags" printed one path while b.txt
\* carries "x" in the taxonomy "a"
C14_Witness ==
    /\ last.op = "search"
    /\ last.args = << Tags, "x" >>
    /\ out = << Line("Found", <<"players", "a.txt">>, <<>>) >>
    /\ \E f \in files :
         /\ f.filename = "b.txt"
         /\ \E tg \in TagsNamed(taxonomies, tags, <<"a">>, "x") :
               BagIn(<<f.id, tg.id>>, file_tags)

----------------------------------------------------------------------------
(* Lookup by hash *)

\* the records whose current hash is h
RecordsWithHash(h) == {r \in files : r.hash = h}

\* every registered key has its own record, with the hash registered last
RecordPerRegistration ==
    \A key \in DOMAIN registered :
        \E r \in RowsOf(key) : r.hash = registered[key].hash /\ RowsOf(key) = {r}

\* the last lookup answered "" when no record has the hash, and otherwise the
\* directory/filename of a record that has it, in cleaned form
LookupAnswer ==
    (last.op = "GetFilePathByHash" /\ initialized)
    => /\ err = "ok"
       /\ Len(out) = 1
       /\ out[1].p = <<>> <=> RecordsWithHash(last.args[1]) = {}
       /\ out[1].p # <<>> =>
            \E r \in RecordsWithHash(last.args[1]) :
               out[1].p = Clean(SqlConcatPath(r.path, r.filename))

\* C15: FindPathByHash(h) returns "not found" without an error exactly when
\* no record currently has hash h, and otherwise the directory/filename path
\* of a record whose current hash is h; the same hash registered under two
\* (directory, filename) pairs gives two records, and the lookup returns the
\* path of one of them.
C15_FindPathByHash == RecordPerRegistration /\ LookupAnswer

\* C15 witness: two records of different directories share the hash looked
\* up, a third record has another hash, and the lookup answered a path
C15_Witness ==
    /\ last.op = "GetFilePathByHash"
    /\ last.args[1] = HashOf(1)
    /\ err = "ok"
    /\ out[1].p # <<>>
    /\ \E r1, r2 \in RecordsWithHash(HashOf(1)) : r1.path # r2.path
    /\ RecordsWithHash(HashOf(2)) # {}

----------------------------------------------------------------------------
(* Referential integrity *)

TagsReferToTaxonomies ==
    \A tg \in tags : \E x \in taxonomies : x.id = tg.taxonomy_id

AssociationsReferToRows ==
    \A e \in BagToSet(file_tags) :
        /\ \E f \in files : f.id = e[1]
        /\ \E tg \in tags : tg.id = e[2]

\* C16: in every reachable catalog state, after successful and failed calls
\* alike, every tag's taxonomy_id is the id of a stored taxonomy and every
\* association's file_id and tag_id are the ids of a stored file record and
\* a stored tag.
C16_ReferentialIntegrity == TagsReferToTaxonomies /\ AssociationsReferToRows

\* C16 witness: a tag call failed at commit on a catalog that holds two
\* taxonomies, tags of both and associations
C16_Witness ==
    /\ last.op = "tag"
    /\ err = "commit"
    /\ Cardinality(taxonomies) = 2
    /\ Cardinality({tg.taxonomy_id : tg \in tags}) = 2
    /\ file_tags # EmptyBag

----------------------------------------------------------------------------
(* Frame of registration *)

\* the paths a search delivers, as a set
SearchPaths(n, v) ==
    { SqlConcatPath(h.f.path, h.f.filename) : h \in HandleSearchCommand(n, v).hits }

\* the key of the last AddFile call: <<path, filename>>
AddFileKey(a) == <<a[2], a[1]>>

\* AddFile touches the record of its key and nothing else: the other records,
\* the id of its own record, taxonomies, tags, associations and every search
\* answer stay
AddFileFrameStep ==
    last'.op = "AddFile"
    => /\ <<taxonomies', tags', file_tags'>> = <<taxonomies, tags, file_tags>>
       /\ \A r \in files : <<r.path, r.filename>> # AddFileKey(last'.args) => r \in files'
       /\ \A r \in files' : <<r.path, r.filename>> # AddFileKey(last'.args) => r \in files
       /\ \A r \in files : <<r.path, r.filename>> = AddFileKey(last'.args) =>
            \E q \in files' :
               /\ q.id = r.id /\ q.path = r.path /\ q.filename = r.filename
               /\ err' = "ok" => q.hash = last'.args[3].hash
               /\ \A tg \in tags :
                     CopiesIn(<<q.id, tg.id>>, file_tags') = CopiesIn(<<r.id, tg.id>>, file_tags)
       /\ \A n \in SearchNames, v \in SearchTagValues :
            SearchPaths(n, v)' = SearchPaths(n, v)

\* no step removes a file record or moves it to another id
RecordsStayStep ==
    \A r \in files :
        \E q \in files' : q.id = r.id /\ q.path = r.path /\ q.filename = r.filename

\* C17: RegisterFile changes nothing but the record of its own (directory,
\* filename) key: a tagged file registered again with new content keeps its
\* id and its associations, every search answer is the same before and
\* after, every other record, taxonomy, tag and association is unchanged,
\* and no operation ever removes a file record.
C17_RegisterFrame == [][AddFileFrameStep /\ RecordsStayStep]_vars

\* C17 witness: the tagged record of a.txt, the first one registered, was
\* registered again and now has the second content, beside the tagged b.txt
C17_Witness ==
    /\ last.op = "AddFile"
    /\ err = "ok"
    /\ last.args[1] = "a.txt"
    /\ last.args[3].hash = HashOf(2)
    /\ \E r \in files :
         /\ r.filename = "a.txt" /\ r.id = 1 /\ r.hash = HashOf(2)
         /\ \E tg \in tags : BagIn(<<r.id, tg.id>>, file_tags)
    /\ \E r \in files :
         /\ r.filename = "b.txt" /\ r.hash = HashOf(1)
         /\ \E tg \in tags : BagIn(<<r.id, tg.id>>, file_tags)
    /\ SearchPaths(Tags, "x") # {}

====
